---------------------------- MODULE Spec2Model ----------------------------
(***************************************************************************)
(* A model of the study-assistant scripts:                                 *)
(*   - the polling loop of ask_question (scripts/01_qna_assistant.py) and  *)
(*     of generate_notes_with_assistant (scripts/02_generate_notes.py),    *)
(*     which waits for a remote run to reach a terminal status;            *)
(*   - the schema validation of validate_and_create_notes                  *)
(*     (scripts/02_generate_notes.py): json.loads followed by the          *)
(*     construction of NotesResponse / Note;                               *)
(*   - main() of scripts/02_generate_notes.py: the assistant path, the     *)
(*     fallback to generate_notes_direct, validation and the two files;    *)
(*   - the scripts run one at a time against the service: 00_bootstrap.py, *)
(*     99_cleanup.py and main() of 01_qna_assistant.py;                    *)
(*   - two polling invocations running concurrently.                       *)
(*                                                                         *)
(* The remote service is the environment: every remote call either         *)
(* returns (a status check returns any status) or raises.                  *)
(***************************************************************************)
EXTENDS Integers, Sequences, FiniteSets, TLC

VARIABLES
    \* ---- one invocation of a polling function ----
    fn,              \* the function invoked
    max_attempts,    \* local max_attempts of the invocation
    attempts,        \* local attempts
    status,          \* run.status as last returned by the service
    pc,              \* position in the function body
    ret,             \* value returned to the caller
    printed,         \* the diagnostic printed on the way out
    checks,          \* number of runs.retrieve calls made so far
    sleeps,          \* number of time.sleep calls made so far
    first_completed, \* index of the first check that returned completed (0: none)
    first_failure,   \* index of the first check that returned failed/cancelled/expired
    sleeps_at_failure, \* sleeps done when that check returned
    extracted,       \* messages.list has been called (output extraction)
    raised,          \* an exception reached the function's except clause
    content,         \* what messages.list gave: the newest message's content
    \* ---- main() of 02_generate_notes.py ----
    json_content,    \* the raw text handed to validate_and_create_notes
    vpc,             \* position in main(): "input" right before the call of
                     \* validate_and_create_notes, "returned" right after it
    notes,           \* the value the call returned
    assistant_calls, \* calls of generate_notes_with_assistant made by main()
    direct_calls,    \* calls of generate_notes_direct made by main()
    json_file,       \* exam_notes.json as written by this run
    md_file,         \* exam_notes.md as written by this run
    \* ---- the service and the scripts run against it, one at a time ----
    named,           \* number of assistants named "Study Q&A Assistant"
    init_named,      \* that number before the first script ran
    files,           \* number of uploaded files
    spc,             \* position in the script being run ("shell": none)
    listed,          \* named assistants in the listing the script got
    tried,           \* creation shapes tried by create_assistant_with_file
    uploads,         \* files.create calls made by the script
    created,         \* assistants created by the script
    deleted,         \* assistants deleted by the script
    returned,        \* what create_assistant_with_file returned to the script
    clean,           \* cleanup_assistant has returned and no bootstrap ran since
    qna_exc,         \* the exception main() of 01_qna_assistant.py caught
    \* ---- two concurrent invocations of a polling function ----
    cfn,             \* per invocation: the function invoked
    cpc,             \* per invocation: position in the function body
    cthread,         \* per invocation: local thread (its id; 0: not yet created)
    crun,            \* per invocation: local run (its id; 0: not yet created)
    cattempts,       \* per invocation: local attempts
    cret,            \* per invocation: the value returned
    setup,           \* per invocation: "error" if a call before the loop raised
    listing,         \* per invocation: what messages.list gave it
    used,            \* per invocation: the thread and run ids it passed to the service
    seen,            \* per run id: the outcomes of the status checks made on it
    threads_made,    \* threads the service has created
    runs_made        \* runs the service has created

pollVars == <<fn, max_attempts, attempts, status, pc, ret, printed, checks,
              sleeps, first_completed, first_failure, sleeps_at_failure,
              extracted, raised, content>>
noteVars == <<json_content, vpc, notes>>
mainVars == <<assistant_calls, direct_calls, json_file, md_file>>
\* Everything but the variables of the polling invocation.
svcVars == <<named, init_named, files, spc, listed, tried, uploads, created,
             deleted, returned, clean, qna_exc>>
concVars == <<cfn, cpc, cthread, crun, cattempts, cret, setup, listing, used,
              seen, threads_made, runs_made>>
extVars == <<svcVars, concVars>>
otherVars == <<noteVars, mainVars, extVars>>
vars == <<pollVars, noteVars, mainVars, extVars>>

(***************************************************************************)
(* Polling                                                                 *)
(***************************************************************************)

\* max_attempts as the two functions set it.
MaxAttemptsSrc == 30

\* The loop is also run for every max_attempts in 0..MaxAttemptsBound.
MaxAttemptsBound == 3

AttemptValues == (0 .. MaxAttemptsBound) \cup {MaxAttemptsSrc}

Functions == {"ask_question", "generate_notes_with_assistant"}

\* The statuses a run can be reported in (the job statuses of the data model).
NonTerminal == {"pending", "running"}
TerminalFailure == {"failed", "cancelled", "expired"}
Statuses == NonTerminal \cup {"completed"} \cup TerminalFailure

\* What the newest message of the thread can hold when it is listed.
Contents == {"text", "empty"}

\* while attempts < max_attempts
LoopCondOffByOne(a, m) == a <= m
LoopCond(a, m) == a < m

\* if run.status == "completed": break
BreaksLoopNever(s) == FALSE
BreaksLoop(s) == s = "completed"

\* The statuses on which the loop returns a failure: ask_question returns on
\* failed, cancelled and expired; generate_notes_with_assistant on failed only.
ReturnsFailure(f, s) ==
    IF f = "ask_question"
    THEN s \in {"failed", "cancelled", "expired"}
    ELSE s = "failed"

\* What is printed before the failure return.
FailureMessage(s) == IF s = "failed" THEN "Run failed" ELSE "Run " \o s

\* if attempts >= max_attempts: return None, None  -- only in ask_question;
\* generate_notes_with_assistant goes on to read the messages.
TimesOutNever(f, a, m) == FALSE
TimesOut(f, a, m) == f = "ask_question" /\ a >= m

\* return <value>, from anywhere in the function body.
Return(value, message, exc) ==
    /\ pc' = "done"
    /\ ret' = value
    /\ printed' = message
    /\ raised' = exc

\* except Exception as e: print(...); return None
Except == Return("None", "Error", TRUE)

NoReturn == UNCHANGED <<ret, printed, raised>>

InitPoll ==
    /\ fn \in Functions
    /\ max_attempts \in AttemptValues
    /\ attempts = 0
    /\ status = "none"
    /\ pc = "threads_create"
    /\ ret = "pending"
    /\ printed = ""
    /\ checks = 0
    /\ sleeps = 0
    /\ first_completed = 0
    /\ first_failure = 0
    /\ sleeps_at_failure = 0
    /\ extracted = FALSE
    /\ raised = FALSE
    /\ content = "none"

\* thread = client.beta.threads.create()
ThreadsCreate ==
    /\ pc = "threads_create"
    /\ \/ pc' = "messages_create" /\ NoReturn
       \/ Except
    /\ UNCHANGED <<content, fn, max_attempts, attempts, status, checks, sleeps,
                   first_completed, first_failure, sleeps_at_failure, extracted>>
    /\ UNCHANGED otherVars

\* client.beta.threads.messages.create(**message_data)
MessagesCreate ==
    /\ pc = "messages_create"
    /\ \/ pc' = "runs_create" /\ NoReturn
       \/ Except
    /\ UNCHANGED <<content, fn, max_attempts, attempts, status, checks, sleeps,
                   first_completed, first_failure, sleeps_at_failure, extracted>>
    /\ UNCHANGED otherVars

\* run = client.beta.threads.runs.create(...); attempts = 0
RunsCreate ==
    /\ pc = "runs_create"
    /\ \/ /\ pc' = "while"
          /\ status' = "pending"
          /\ attempts' = 0
          /\ NoReturn
       \/ Except /\ UNCHANGED <<status, attempts>>
    /\ UNCHANGED <<content, fn, max_attempts, checks, sleeps, first_completed,
                   first_failure, sleeps_at_failure, extracted>>
    /\ UNCHANGED otherVars

\* while attempts < max_attempts:
WhileTest ==
    /\ pc = "while"
    /\ pc' = IF LoopCond(attempts, max_attempts) THEN "retrieve" ELSE "after_loop"
    /\ UNCHANGED <<content, fn, max_attempts, attempts, status, ret, printed, checks,
                   sleeps, first_completed, first_failure, sleeps_at_failure,
                   extracted, raised>>
    /\ UNCHANGED otherVars

\* run = client.beta.threads.runs.retrieve(...) and the if/elif on run.status
RunsRetrieve ==
    /\ pc = "retrieve"
    /\ checks' = checks + 1
    /\ \/ \E s \in Statuses :
            /\ status' = s
            /\ first_completed' =
                 IF s = "completed" /\ first_completed = 0
                 THEN checks + 1 ELSE first_completed
            /\ first_failure' =
                 IF s \in TerminalFailure /\ first_failure = 0
                 THEN checks + 1 ELSE first_failure
            /\ sleeps_at_failure' =
                 IF s \in TerminalFailure /\ first_failure = 0
                 THEN sleeps ELSE sleeps_at_failure
            /\ IF BreaksLoop(s)
               THEN pc' = "after_loop" /\ NoReturn
               ELSE IF ReturnsFailure(fn, s)
                    THEN Return("None", FailureMessage(s), FALSE)
                    ELSE pc' = "sleep" /\ NoReturn
       \/ /\ Except
          /\ UNCHANGED <<status, first_completed, first_failure, sleeps_at_failure>>
    /\ UNCHANGED <<content, fn, max_attempts, attempts, sleeps, extracted>>
    /\ UNCHANGED otherVars

\* The same step without the time.sleep call.
SleepSkipped ==
    /\ pc = "sleep"
    /\ attempts' = attempts + 1
    /\ pc' = "while"
    /\ UNCHANGED <<content, fn, max_attempts, status, ret, printed, checks, sleeps,
                   first_completed, first_failure, sleeps_at_failure,
                   extracted, raised>>
    /\ UNCHANGED otherVars

\* print("."); time.sleep(1); attempts += 1
Sleep ==
    /\ pc = "sleep"
    /\ sleeps' = sleeps + 1
    /\ attempts' = attempts + 1
    /\ pc' = "while"
    /\ UNCHANGED <<content, fn, max_attempts, status, ret, printed, checks,
                   first_completed, first_failure, sleeps_at_failure,
                   extracted, raised>>
    /\ UNCHANGED otherVars

\* After the loop: ask_question tests attempts >= max_attempts and returns
\* on timeout; generate_notes_with_assistant has no such test.
AfterLoop ==
    /\ pc = "after_loop"
    /\ IF TimesOut(fn, attempts, max_attempts)
       THEN Return("None", "Timeout waiting for response", FALSE)
       ELSE pc' = "messages_list" /\ NoReturn
    /\ UNCHANGED <<content, fn, max_attempts, attempts, status, checks, sleeps,
                   first_completed, first_failure, sleeps_at_failure, extracted>>
    /\ UNCHANGED otherVars

\* messages = client.beta.threads.messages.list(...) and the extraction of the
\* newest message's text.  With an empty content list, content[0] raises
\* IndexError in both functions (in ask_question after answer has been set to
\* "No response received", at the annotations test).
MessagesList ==
    /\ pc = "messages_list"
    /\ extracted' = TRUE
    /\ \/ \E c \in Contents :
            /\ content' = c
            /\ IF c = "text" THEN Return("output", "", FALSE) ELSE Except
       \/ Except /\ content' = "error"
    /\ UNCHANGED <<fn, max_attempts, attempts, status, checks, sleeps,
                   first_completed, first_failure, sleeps_at_failure>>
    /\ UNCHANGED otherVars

NextPoll ==
    \/ ThreadsCreate
    \/ MessagesCreate
    \/ RunsCreate
    \/ WhileTest
    \/ RunsRetrieve
    \/ Sleep
    \/ AfterLoop
    \/ MessagesList

InitNotesIdle ==
    /\ json_content = [kind |-> "none"]
    /\ vpc = "idle"
    /\ notes = [is_none |-> TRUE, list |-> <<>>, printed |-> ""]

\* No call made and no file written by main().
InitMainVars ==
    /\ assistant_calls = 0
    /\ direct_calls = 0
    /\ json_file = [written |-> FALSE]
    /\ md_file = [written |-> FALSE]

\* No script is run against the service.
InitSvcIdle ==
    /\ named = 0
    /\ init_named = 0
    /\ files = 0
    /\ spc = "off"
    /\ listed = 0
    /\ tried = <<>>
    /\ uploads = 0
    /\ created = 0
    /\ deleted = 0
    /\ returned = [kind |-> "none", assistant |-> "none", file_id |-> 0]
    /\ clean = FALSE
    /\ qna_exc = "none"

\* The invocations that can run concurrently.
Procs == {1, 2}

\* The values an invocation returns.
Pending == [kind |-> "pending", thread |-> 0]
ReturnedNone == [kind |-> "None", thread |-> 0]
\* The text of the newest message of thread t.
Output(t) == [kind |-> "output", thread |-> t]

\* No concurrent invocation is made.
InitConcIdle ==
    /\ cfn = [p \in Procs |-> "none"]
    /\ cpc = [p \in Procs |-> "idle"]
    /\ cthread = [p \in Procs |-> 0]
    /\ crun = [p \in Procs |-> 0]
    /\ cattempts = [p \in Procs |-> 0]
    /\ cret = [p \in Procs |-> Pending]
    /\ setup = [p \in Procs |-> "ok"]
    /\ listing = [p \in Procs |-> "none"]
    /\ used = [p \in Procs |-> {}]
    /\ seen = [r \in Procs |-> <<>>]
    /\ threads_made = 0
    /\ runs_made = 0

InitExtIdle == InitSvcIdle /\ InitConcIdle

Init == InitPoll /\ InitNotesIdle /\ InitMainVars /\ InitExtIdle

Next == NextPoll

Spec == Init /\ [][Next]_vars

(***************************************************************************)
(* Schema validation: Note, NotesResponse, validate_and_create_notes       *)
(***************************************************************************)

\* class Note: id ge / le, heading min_length / max_length, summary max_length
IdMin == 1
IdMax == 10
HeadingMinLen == 1
HeadingMaxLen == 100
SummaryMaxLen == 150
\* class NotesResponse: notes min_items / max_items
MinItems == 10
MaxItems == 10

\* The longest notes array handed to validation.
MaxNotes == 11

\* A string of n characters.
RECURSIVE Repeat(_, _)
Repeat(c, n) ==
    IF n = 0 THEN ""
    ELSE LET half == Repeat(c, n \div 2)
         IN  half \o half \o (IF n % 2 = 1 THEN c ELSE "")

\* A page_ref as it stands in the JSON object: key absent, null, or an integer;
\* and as it stands in a Note: None or an integer.
Absent == [t |-> "absent", v |-> 0]
Null == [t |-> "null", v |-> 0]
None == [t |-> "none", v |-> 0]
IntRef(n) == [t |-> "int", v |-> n]

\* id: int = Field(..., ge=1, le=10)
IdOkNoUpper(v) == v >= IdMin
IdOk(v) == v >= IdMin /\ v <= IdMax

\* heading: str = Field(..., min_length=1, max_length=100)
HeadingOk(h) == Len(h) >= HeadingMinLen /\ Len(h) <= HeadingMaxLen

\* summary: str = Field(..., max_length=150)
SummaryOk(t) == Len(t) <= SummaryMaxLen

\* page_ref: Optional[int] = Field(None): None or any integer, no bound.
PageRefOk(p) == p.t \in {"absent", "null", "int"}

\* Whether Note(**d) is constructed for the JSON object d.
NoteValid(d) ==
    /\ IdOk(d.id)
    /\ HeadingOk(d.heading)
    /\ SummaryOk(d.summary)
    /\ PageRefOk(d.page_ref)

\* A Note whose page_ref is kept only when it is truthy.
MakeNoteTruthyRef(d) ==
    [id |-> d.id, heading |-> d.heading, summary |-> d.summary,
     page_ref |-> IF d.page_ref.t = "int" /\ d.page_ref.v # 0 THEN d.page_ref ELSE None]

\* The Note constructed from d: page_ref defaults to None.
MakeNote(d) ==
    [id |-> d.id, heading |-> d.heading, summary |-> d.summary,
     page_ref |-> IF d.page_ref.t = "int" THEN d.page_ref ELSE None]

\* notes: List[Note] = Field(..., min_items=10, max_items=10)
ItemsOkNoUpper(l) == Len(l) >= MinItems
ItemsOk(l) == Len(l) >= MinItems /\ Len(l) <= MaxItems

\* json.loads(json_content): the parsed document, or JSONDecodeError.
json_loads(text) ==
    IF text.kind = "json"
    THEN [exc |-> "", data |-> text.value]
    ELSE [exc |-> "JSONDecodeError", data |-> [top |-> "none", has_notes |-> FALSE, notes |-> <<>>]]

\* NotesResponse(**data): TypeError when data is no mapping, ValidationError
\* when the notes field is missing, has the wrong count or holds a bad note.
NotesResponseExc(data) ==
    IF data.top # "object" THEN "TypeError"
    ELSE IF ~data.has_notes THEN "ValidationError"
    ELSE IF ~ItemsOk(data.notes) THEN "ValidationError"
    ELSE IF \E i \in 1 .. Len(data.notes) : ~NoteValid(data.notes[i])
         THEN "ValidationError"
    ELSE ""

\* What validate_and_create_notes returns: None (is_none) after printing the
\* caught exception's message, or notes_response.notes.
ReturnNone(msg) == [is_none |-> TRUE, list |-> <<>>, printed |-> msg]

\* A validation that drops the notes that fail and returns the others.
validate_valid_subset(text) ==
    LET parsed == json_loads(text)
    IN  IF parsed.exc # "" THEN ReturnNone("Invalid JSON")
        ELSE IF parsed.data.top # "object" \/ ~parsed.data.has_notes
             THEN ReturnNone("Validation error")
        ELSE [is_none |-> FALSE,
              list |-> [i \in 1 .. Len(SelectSeq(parsed.data.notes, NoteValid)) |->
                           MakeNote(SelectSeq(parsed.data.notes, NoteValid)[i])],
              printed |-> ""]

validate_and_create_notes(text) ==
    LET parsed == json_loads(text)
        exc == IF parsed.exc # "" THEN parsed.exc ELSE NotesResponseExc(parsed.data)
    IN  IF exc = "JSONDecodeError" THEN ReturnNone("Invalid JSON")
        ELSE IF exc = "ValidationError" THEN ReturnNone("Validation error")
        ELSE IF exc # "" THEN ReturnNone("Error creating notes")
        ELSE [is_none |-> FALSE,
              list |-> [i \in 1 .. Len(parsed.data.notes) |-> MakeNote(parsed.data.notes[i])],
              printed |-> ""]

\* ---- the raw texts validation is applied to ----

\* A well-formed note for position i; ids run 1..10 and wrap ("distinct"),
\* or are all the same ("same").
BaseNote(i, ids) ==
    [id |-> IF ids = "distinct" THEN ((i - 1) % IdMax) + 1 ELSE IdMin,
     heading |-> "Concept",
     summary |-> "Summary for concept",
     page_ref |-> IntRef(i * 10)]

\* The note put at one position: every combination of boundary values.
OddNotes ==
    [id : {IdMin - 1, IdMin, IdMax, IdMax + 1},
     heading : {Repeat("A", n) : n \in {0, HeadingMinLen, HeadingMaxLen, HeadingMaxLen + 1}},
     summary : {Repeat("x", n) : n \in {0, SummaryMaxLen, SummaryMaxLen + 1}},
     page_ref : {Absent, Null, IntRef(-1), IntRef(0), IntRef(42)}]

\* n base notes, the one at position k (if k # 0) replaced by odd.
NotesList(n, ids, k, odd) ==
    [i \in 1 .. n |-> IF i = k THEN odd ELSE BaseNote(i, ids)]

JsonText(top, has_notes, l) ==
    [kind |-> "json", value |-> [top |-> top, has_notes |-> has_notes, notes |-> l]]

\* The raw text of one shape: no JSON at all, a JSON array, a JSON object
\* without a notes field, or a JSON object whose notes field is the list l.
Shapes == {"not_json", "array", "no_notes", "notes"}

RawText(shape, l) ==
    IF shape = "not_json"
    THEN [kind |-> "not_json", value |-> [top |-> "none", has_notes |-> FALSE, notes |-> <<>>]]
    ELSE IF shape = "array" THEN JsonText("array", FALSE, <<>>)
    ELSE IF shape = "no_notes" THEN JsonText("object", FALSE, <<>>)
    ELSE JsonText("object", TRUE, l)

InitValidate ==
    /\ \E shape \in Shapes, n \in 0 .. MaxNotes, ids \in {"distinct", "same"} :
         \E k \in 0 .. n, odd \in OddNotes :
            /\ shape # "notes" => (n = 0 /\ ids = "distinct")
            /\ json_content = RawText(shape, NotesList(n, ids, k, odd))
    /\ vpc = "input"
    /\ notes = ReturnNone("")

\* notes = validate_and_create_notes(json_content)
ValidateAndCreateNotes ==
    /\ vpc = "input"
    /\ notes' = validate_and_create_notes(json_content)
    /\ vpc' = "returned"
    /\ UNCHANGED json_content
    /\ UNCHANGED mainVars
    /\ UNCHANGED pollVars
    /\ UNCHANGED extVars

\* if not notes: None, or an empty list.
NotNotes(r) == r.is_none \/ Len(r.list) = 0

\* if not notes: print("Failed to validate notes"); return
NotesTest ==
    /\ vpc = "returned"
    /\ vpc' = IF NotNotes(notes) THEN "main_failed" ELSE "save_json"
    /\ UNCHANGED <<json_content, notes>>
    /\ UNCHANGED mainVars
    /\ UNCHANGED pollVars
    /\ UNCHANGED extVars

\* note.model_dump(): page_ref None is dumped as null.
model_dump(note) ==
    [id |-> note.id, heading |-> note.heading, summary |-> note.summary,
     page_ref |-> IF note.page_ref.t = "int" THEN note.page_ref ELSE Null]

\* The document json.dump writes: an object with the keys exam_notes and
\* metadata, and no key notes.
NotesFileText(l) ==
    [kind |-> "json",
     value |-> [top |-> "object", has_notes |-> FALSE, notes |-> <<>>,
                exam_notes |-> [i \in 1 .. Len(l) |-> model_dump(l[i])],
                metadata |-> [total_notes |-> Len(l)]]]

\* save_notes_to_file(notes): the file is written, or open / json.dump
\* raises and the except clause prints the error.
SaveNotesToFile ==
    /\ vpc = "save_json"
    /\ \/ json_file' = [written |-> TRUE, text |-> NotesFileText(notes.list)]
       \/ UNCHANGED json_file
    /\ vpc' = "save_md"
    /\ UNCHANGED <<json_content, notes, assistant_calls, direct_calls, md_file>>
    /\ UNCHANGED pollVars
    /\ UNCHANGED extVars

\* if note.page_ref: the "Page Reference" line is written.
Truthy(ref) == ref.t = "int" /\ ref.v # 0

\* print_notes_summary: sum(1 for note in notes if note.page_ref)
NotesWithPageRefs(l) == Cardinality({i \in 1 .. Len(l) : Truthy(l[i].page_ref)})

\* The sections save_notes_as_markdown writes, one per note.
MarkdownSections(l) ==
    [i \in 1 .. Len(l) |->
        [id |-> l[i].id, heading |-> l[i].heading, summary |-> l[i].summary,
         page_line |-> Truthy(l[i].page_ref)]]

\* save_notes_as_markdown(notes): written, or the except clause.
SaveNotesAsMarkdown ==
    /\ vpc = "save_md"
    /\ \/ md_file' = [written |-> TRUE, sections |-> MarkdownSections(notes.list)]
       \/ UNCHANGED md_file
    /\ vpc' = "main_done"
    /\ UNCHANGED <<json_content, notes, assistant_calls, direct_calls, json_file>>
    /\ UNCHANGED pollVars
    /\ UNCHANGED extVars

InitPollIdle ==
    /\ fn = "none"
    /\ max_attempts = 0
    /\ attempts = 0
    /\ status = "none"
    /\ pc = "idle"
    /\ ret = "pending"
    /\ printed = ""
    /\ checks = 0
    /\ sleeps = 0
    /\ first_completed = 0
    /\ first_failure = 0
    /\ sleeps_at_failure = 0
    /\ extracted = FALSE
    /\ raised = FALSE
    /\ content = "none"

NextValidate ==
    \/ ValidateAndCreateNotes
    \/ NotesTest
    \/ SaveNotesToFile
    \/ SaveNotesAsMarkdown

InitV == InitValidate /\ InitPollIdle /\ InitMainVars /\ InitExtIdle

SpecValidate == InitV /\ [][NextValidate]_vars

(***************************************************************************)
(* main() of 02_generate_notes.py                                          *)
(***************************************************************************)

\* json_content = None, and the empty string a generation can return.
NoContent == [kind |-> "none"]
EmptyText == [kind |-> "empty"]

\* if not json_content: None and "" are falsy.
NotContent(jc) == jc.kind \in {"none", "empty"}

\* The texts a generation returns in this model: valid notes, notes with one
\* summary too long, a text that is no JSON, and the empty string.
GeneratedTexts ==
    { RawText("notes", NotesList(MinItems, "distinct", 0, BaseNote(1, "distinct"))),
      RawText("notes", NotesList(MinItems, "distinct", 2,
                  [BaseNote(2, "distinct") EXCEPT !.summary = Repeat("x", SummaryMaxLen + 1)])),
      RawText("not_json", <<>>),
      EmptyText }

InitMain ==
    /\ InitPollIdle
    /\ InitMainVars
    /\ InitExtIdle
    /\ json_content = NoContent
    /\ vpc = "get_assistant"
    /\ notes = ReturnNone("")

\* assistant, file = get_assistant_and_file(); json_content = None;
\* if assistant: -- an assistant named "Study Q&A Assistant" is listed, or
\* none is, or the listing raises (None, None).
GetAssistantAndFile ==
    /\ vpc = "get_assistant"
    /\ vpc' \in {"call_assistant", "fallback_test"}
    /\ UNCHANGED <<json_content, notes>>
    /\ UNCHANGED mainVars
    /\ UNCHANGED pollVars
    /\ UNCHANGED extVars

\* json_content = generate_notes_with_assistant(assistant.id, ...): the call.
CallAssistant ==
    /\ vpc = "call_assistant"
    /\ vpc' = "polling"
    /\ assistant_calls' = assistant_calls + 1
    /\ fn' = "generate_notes_with_assistant"
    /\ max_attempts' = MaxAttemptsSrc
    /\ pc' = "threads_create"
    /\ UNCHANGED <<attempts, status, ret, printed, checks, sleeps,
                   first_completed, first_failure, sleeps_at_failure,
                   extracted, raised, content>>
    /\ UNCHANGED <<json_content, notes, direct_calls, json_file, md_file>>
    /\ UNCHANGED extVars

\* ... and its return: None, or the text of the newest message.
AssistantReturns ==
    /\ vpc = "polling"
    /\ pc = "done"
    /\ IF ret = "output"
       THEN json_content' \in GeneratedTexts
       ELSE json_content' = NoContent
    /\ vpc' = "fallback_test"
    /\ UNCHANGED notes
    /\ UNCHANGED mainVars
    /\ UNCHANGED pollVars
    /\ UNCHANGED extVars

\* if not json_content: (Method 2)
NeedsFallbackNever(jc) == FALSE
NeedsFallback(jc) == NotContent(jc)

\* if not json_content: json_content = generate_notes_direct() -- which
\* returns message.content (a text or None), or None on an exception.
FallbackToDirect ==
    /\ vpc = "fallback_test"
    /\ IF NeedsFallback(json_content)
       THEN /\ direct_calls' = direct_calls + 1
            /\ json_content' \in GeneratedTexts \cup {NoContent}
       ELSE UNCHANGED <<direct_calls, json_content>>
    /\ vpc' = "content_test"
    /\ UNCHANGED <<notes, assistant_calls, json_file, md_file>>
    /\ UNCHANGED pollVars
    /\ UNCHANGED extVars

\* if not json_content: print("Failed to generate notes"); return
ContentTest ==
    /\ vpc = "content_test"
    /\ vpc' = IF NotContent(json_content) THEN "generate_failed" ELSE "input"
    /\ UNCHANGED <<json_content, notes>>
    /\ UNCHANGED mainVars
    /\ UNCHANGED pollVars
    /\ UNCHANGED extVars

NextMain ==
    \/ GetAssistantAndFile
    \/ CallAssistant
    \/ NextPoll
    \/ AssistantReturns
    \/ FallbackToDirect
    \/ ContentTest
    \/ NextValidate

SpecMain == InitMain /\ [][NextMain]_vars

(***************************************************************************)
(* The scripts run one after the other against the service:                *)
(* 00_bootstrap.py, 99_cleanup.py and main() of 01_qna_assistant.py.       *)
(* A remote call returns or raises; a call that raises changes nothing.    *)
(* assistants.list() returns every assistant of the account.               *)
(***************************************************************************)

\* Named assistants the service holds before the first script, at most.
MaxNamed == 2
\* Uploaded files the service holds, at most.
MaxFiles == 2

\* The creation shapes of create_assistant_with_file, in the order tried.
CreationShapesLegacyFirst == <<"file_ids", "tool_resources", "no_attachment">>
CreationShapes == <<"tool_resources", "file_ids", "no_attachment">>

\* for assistant in assistants.data: if assistant.name == "Study Q&A Assistant"
ExistsNever(l) == FALSE
Exists(l) == l > 0

\* for assistant in assistants.data: ... delete -- the loop goes on while
\* listed assistants of that name are left.
KeepsDeletingFirstOnly(d, l) == d < l /\ d < 1
KeepsDeleting(d, l) == d < l

\* create_assistant_with_file has not returned.
NotReturned == [kind |-> "none", assistant |-> "none", file_id |-> 0]

\* return assistant, uploaded_file.id -- the assistant created with shape
\* sh and the id of the file uploaded by this call.
ReturnedPair(sh, f) == [kind |-> "pair", assistant |-> sh, file_id |-> f]

svcLocals == <<listed, tried, uploads, created, deleted, returned>>

\* The locals of a script that starts.
FreshLocals ==
    /\ listed' = 0
    /\ tried' = <<>>
    /\ uploads' = 0
    /\ created' = 0
    /\ deleted' = 0
    /\ returned' = NotReturned

\* The script ends: it returns, or an exception nobody catches ends it.
ScriptEnds == spc' = "shell"

InitService ==
    /\ named \in 0 .. MaxNamed
    /\ init_named = named
    /\ files \in 0 .. 1
    /\ spc = "shell"
    /\ listed = 0
    /\ tried = <<>>
    /\ uploads = 0
    /\ created = 0
    /\ deleted = 0
    /\ returned = [kind |-> "none", assistant |-> "none", file_id |-> 0]
    /\ clean = FALSE
    /\ qna_exc = "none"

\* ---- 00_bootstrap.py ----

\* __main__: the data directory holds a PDF, or it does not.
BootstrapStart ==
    /\ spc = "shell"
    /\ \/ spc' = "boot_list" /\ files < MaxFiles
       \/ spc' = "ca_list"
    /\ clean' = FALSE
    /\ FreshLocals
    /\ UNCHANGED <<named, init_named, files, qna_exc>>
    /\ UNCHANGED <<pollVars, noteVars, mainVars, concVars>>

\* __main__: assistants = client.beta.assistants.list() and the search for
\* an existing assistant; if existing_assistant: ... else: ...
BootstrapList ==
    /\ spc = "boot_list"
    /\ \/ /\ listed' = named
          /\ spc' = IF Exists(named) THEN "boot_upload" ELSE "cwf_upload"
       \/ ScriptEnds /\ UNCHANGED listed
    /\ UNCHANGED <<named, init_named, files, tried, uploads, created, deleted,
                   clean, qna_exc>>
    /\ UNCHANGED returned
    /\ UNCHANGED <<pollVars, noteVars, mainVars, concVars>>

\* __main__, reusing: the file is uploaded for reference only.
BootstrapUploadOnly ==
    /\ spc = "boot_upload"
    /\ \/ files' = files + 1 /\ uploads' = uploads + 1
       \/ UNCHANGED <<files, uploads>>
    /\ ScriptEnds
    /\ UNCHANGED <<named, init_named, listed, tried, created, deleted, clean, qna_exc>>
    /\ UNCHANGED returned
    /\ UNCHANGED <<pollVars, noteVars, mainVars, concVars>>

\* create_assistant_with_file: uploaded_file = client.files.create(...)
UploadFile ==
    /\ spc = "cwf_upload"
    /\ \/ /\ files' = files + 1
          /\ uploads' = uploads + 1
          /\ spc' = "cwf_create"
       \/ ScriptEnds /\ UNCHANGED <<files, uploads>>
    /\ UNCHANGED <<named, init_named, listed, tried, created, deleted, clean, qna_exc>>
    /\ UNCHANGED returned
    /\ UNCHANGED <<pollVars, noteVars, mainVars, concVars>>

\* create_assistant_with_file: the next client.beta.assistants.create(...):
\* it returns and the function returns the assistant, or it raises and the
\* next shape is tried; the exception of the last shape is not caught.
CreateWithFile ==
    /\ spc = "cwf_create"
    /\ Len(tried) < Len(CreationShapes)
    /\ tried' = Append(tried, CreationShapes[Len(tried) + 1])
    /\ \/ /\ named' = named + 1
          /\ created' = created + 1
          /\ returned' = ReturnedPair(CreationShapes[Len(tried) + 1], files)
          /\ ScriptEnds
       \/ /\ UNCHANGED <<named, created, returned>>
          /\ spc' = IF Len(tried) + 1 < Len(CreationShapes) THEN "cwf_create" ELSE "shell"
    /\ UNCHANGED <<init_named, files, listed, uploads, deleted, clean, qna_exc>>
    /\ UNCHANGED <<pollVars, noteVars, mainVars, concVars>>

\* create_assistant: the listing and the search; an assistant found is
\* returned (reused).
CreateAssistantList ==
    /\ spc = "ca_list"
    /\ \/ /\ listed' = named
          /\ spc' = IF Exists(named) THEN "shell" ELSE "ca_create"
       \/ ScriptEnds /\ UNCHANGED listed
    /\ UNCHANGED <<named, init_named, files, tried, uploads, created, deleted,
                   clean, qna_exc>>
    /\ UNCHANGED returned
    /\ UNCHANGED <<pollVars, noteVars, mainVars, concVars>>

\* create_assistant: assistant = client.beta.assistants.create(...)
CreateAssistant ==
    /\ spc = "ca_create"
    /\ \/ named' = named + 1 /\ created' = created + 1
       \/ UNCHANGED <<named, created>>
    /\ ScriptEnds
    /\ UNCHANGED <<init_named, files, listed, tried, uploads, deleted, clean, qna_exc>>
    /\ UNCHANGED returned
    /\ UNCHANGED <<pollVars, noteVars, mainVars, concVars>>

\* ---- 99_cleanup.py ----

CleanupStart ==
    /\ spc = "shell"
    /\ spc' = "cl_list"
    /\ FreshLocals
    /\ UNCHANGED <<named, init_named, files, clean, qna_exc>>
    /\ UNCHANGED <<pollVars, noteVars, mainVars, concVars>>

\* cleanup_assistant: assistants = client.beta.assistants.list()
CleanupList ==
    /\ spc = "cl_list"
    /\ \/ listed' = named /\ spc' = "cl_delete"
       \/ ScriptEnds /\ UNCHANGED listed
    /\ UNCHANGED <<named, init_named, files, tried, uploads, created, deleted,
                   clean, qna_exc>>
    /\ UNCHANGED returned
    /\ UNCHANGED <<pollVars, noteVars, mainVars, concVars>>

\* cleanup_assistant: the loop over the listing; client.beta.assistants
\* .delete(assistant.id) is not in a try block.
CleanupDelete ==
    /\ spc = "cl_delete"
    /\ IF KeepsDeleting(deleted, listed)
       THEN \/ /\ named' = named - 1
               /\ deleted' = deleted + 1
               /\ UNCHANGED spc
            \/ ScriptEnds /\ UNCHANGED <<named, deleted>>
       ELSE spc' = "cl_files" /\ UNCHANGED <<named, deleted>>
    /\ UNCHANGED <<init_named, files, listed, tried, uploads, created, clean, qna_exc>>
    /\ UNCHANGED returned
    /\ UNCHANGED <<pollVars, noteVars, mainVars, concVars>>

\* cleanup_assistant: files = client.files.list(), then each file deleted in
\* its own try block: any number of them is left.
CleanupFiles ==
    /\ spc = "cl_files"
    /\ \/ files' \in 0 .. files /\ spc' = "cl_stores"
       \/ ScriptEnds /\ UNCHANGED files
    /\ UNCHANGED <<named, init_named, listed, tried, uploads, created, deleted,
                   clean, qna_exc>>
    /\ UNCHANGED returned
    /\ UNCHANGED <<pollVars, noteVars, mainVars, concVars>>

\* cleanup_assistant: the vector stores, all inside try/except; the function
\* returns.
CleanupReturns ==
    /\ spc = "cl_stores"
    /\ ScriptEnds
    /\ clean' = TRUE
    /\ UNCHANGED <<named, init_named, files, listed, tried, uploads, created,
                   deleted, qna_exc>>
    /\ UNCHANGED returned
    /\ UNCHANGED <<pollVars, noteVars, mainVars, concVars>>

\* ---- main() of 01_qna_assistant.py ----

QnaStart ==
    /\ spc = "shell"
    /\ spc' = "qna_get"
    /\ qna_exc' = "none"
    /\ FreshLocals
    /\ UNCHANGED <<named, init_named, files, clean>>
    /\ UNCHANGED <<pollVars, noteVars, mainVars, concVars>>

\* assistant = get_assistant(): the first assistant of that name, or
\* ValueError; the listing itself may raise.
GetAssistant ==
    /\ spc = "qna_get"
    /\ \/ /\ listed' = named
          /\ IF Exists(named)
             THEN spc' = "qna_files" /\ UNCHANGED qna_exc
             ELSE spc' = "qna_except" /\ qna_exc' = "ValueError"
       \/ /\ spc' = "qna_except"
          /\ qna_exc' = "APIError"
          /\ UNCHANGED listed
    /\ UNCHANGED <<named, init_named, files, tried, uploads, created, deleted, clean>>
    /\ UNCHANGED returned
    /\ UNCHANGED <<pollVars, noteVars, mainVars, concVars>>

\* files = client.files.list() and the search for the latest PDF.
QnaListFiles ==
    /\ spc = "qna_files"
    /\ \/ spc' = "qna_ask" /\ UNCHANGED qna_exc
       \/ spc' = "qna_except" /\ qna_exc' = "APIError"
    /\ UNCHANGED <<named, init_named, files, clean>>
    /\ UNCHANGED svcLocals
    /\ UNCHANGED <<pollVars, noteVars, mainVars, concVars>>

\* answer, citations = ask_question(assistant.id, question, latest_file_id)
AskQuestion ==
    /\ spc = "qna_ask"
    /\ spc' = "qna_wait"
    /\ fn' = "ask_question"
    /\ max_attempts' = MaxAttemptsSrc
    /\ attempts' = 0
    /\ status' = "none"
    /\ pc' = "threads_create"
    /\ ret' = "pending"
    /\ printed' = ""
    /\ checks' = 0
    /\ sleeps' = 0
    /\ first_completed' = 0
    /\ first_failure' = 0
    /\ sleeps_at_failure' = 0
    /\ extracted' = FALSE
    /\ raised' = FALSE
    /\ content' = "none"
    /\ UNCHANGED <<named, init_named, files, clean, qna_exc>>
    /\ UNCHANGED svcLocals
    /\ UNCHANGED <<noteVars, mainVars, concVars>>

\* ask_question has returned: the next question of the interactive loop is
\* asked, or the user quits and main() returns.
QnaNext ==
    /\ spc = "qna_wait"
    /\ pc = "done"
    /\ spc' \in {"qna_ask", "shell"}
    /\ fn' = "none"
    /\ max_attempts' = 0
    /\ attempts' = 0
    /\ status' = "none"
    /\ pc' = "idle"
    /\ ret' = "pending"
    /\ printed' = ""
    /\ checks' = 0
    /\ sleeps' = 0
    /\ first_completed' = 0
    /\ first_failure' = 0
    /\ sleeps_at_failure' = 0
    /\ extracted' = FALSE
    /\ raised' = FALSE
    /\ content' = "none"
    /\ UNCHANGED <<named, init_named, files, clean, qna_exc>>
    /\ UNCHANGED svcLocals
    /\ UNCHANGED <<noteVars, mainVars, concVars>>

\* except Exception as e: print(f"Error: {e}") ...
QnaExcept ==
    /\ spc = "qna_except"
    /\ ScriptEnds
    /\ UNCHANGED <<named, init_named, files, clean, qna_exc>>
    /\ UNCHANGED svcLocals
    /\ UNCHANGED <<pollVars, noteVars, mainVars, concVars>>

InitSvc == InitService /\ InitConcIdle /\ InitPollIdle /\ InitNotesIdle /\ InitMainVars

NextService ==
    \/ BootstrapStart
    \/ BootstrapList
    \/ BootstrapUploadOnly
    \/ UploadFile
    \/ CreateWithFile
    \/ CreateAssistantList
    \/ CreateAssistant
    \/ CleanupStart
    \/ CleanupList
    \/ CleanupDelete
    \/ CleanupFiles
    \/ CleanupReturns
    \/ QnaStart
    \/ GetAssistant
    \/ QnaListFiles
    \/ AskQuestion
    \/ NextPoll
    \/ QnaNext
    \/ QnaExcept

SpecService == InitSvc /\ [][NextService]_vars

(***************************************************************************)
(* Two invocations of ask_question / generate_notes_with_assistant running *)
(* concurrently against the service.  thread, run and attempts are locals  *)
(* of each invocation; the service hands out fresh thread and run ids and  *)
(* answers each status check of a run with any status, or an error.        *)
(***************************************************************************)

\* max_attempts of the concurrent invocations.
MaxConcAttempts == 2

\* What a status check gives: a non-terminal status, completed, a failure
\* both functions return on, a failure only ask_question returns on, or an
\* exception.
ConcOutcomes == {"running", "completed", "failed", "expired", "error"}

\* thread_id=thread.id / run_id=run.id: the locals of the invocation.
ThreadOf(p) == cthread[p]
RunOfLatest(p) == runs_made
RunOf(p) == crun[p]

CReturn(p, value) ==
    /\ cpc' = [cpc EXCEPT ![p] = "done"]
    /\ cret' = [cret EXCEPT ![p] = value]

InitConc ==
    /\ cfn \in [Procs -> Functions]
    /\ cpc = [p \in Procs |-> "threads_create"]
    /\ cthread = [p \in Procs |-> 0]
    /\ crun = [p \in Procs |-> 0]
    /\ cattempts = [p \in Procs |-> 0]
    /\ cret = [p \in Procs |-> Pending]
    /\ setup = [p \in Procs |-> "ok"]
    /\ listing = [p \in Procs |-> "none"]
    /\ used = [p \in Procs |-> {}]
    /\ seen = [r \in Procs |-> <<>>]
    /\ threads_made = 0
    /\ runs_made = 0

\* thread = client.beta.threads.create()
CThreadsCreate(p) ==
    /\ cpc[p] = "threads_create"
    /\ \/ /\ threads_made' = threads_made + 1
          /\ cthread' = [cthread EXCEPT ![p] = threads_made + 1]
          /\ cpc' = [cpc EXCEPT ![p] = "messages_create"]
          /\ UNCHANGED <<cret, setup>>
       \/ /\ CReturn(p, ReturnedNone)
          /\ setup' = [setup EXCEPT ![p] = "error"]
          /\ UNCHANGED <<threads_made, cthread>>
    /\ UNCHANGED <<cfn, crun, cattempts, listing, used, seen, runs_made>>
    /\ UNCHANGED <<pollVars, noteVars, mainVars, svcVars>>

\* client.beta.threads.messages.create(thread_id=thread.id, ...)
CMessagesCreate(p) ==
    /\ cpc[p] = "messages_create"
    /\ used' = [used EXCEPT ![p] = @ \cup {<<"thread", ThreadOf(p)>>}]
    /\ \/ /\ cpc' = [cpc EXCEPT ![p] = "runs_create"]
          /\ UNCHANGED <<cret, setup>>
       \/ /\ CReturn(p, ReturnedNone)
          /\ setup' = [setup EXCEPT ![p] = "error"]
    /\ UNCHANGED <<cfn, cthread, crun, cattempts, listing, seen, threads_made, runs_made>>
    /\ UNCHANGED <<pollVars, noteVars, mainVars, svcVars>>

\* run = client.beta.threads.runs.create(thread_id=thread.id, ...); attempts = 0
CRunsCreate(p) ==
    /\ cpc[p] = "runs_create"
    /\ used' = [used EXCEPT ![p] = @ \cup {<<"thread", ThreadOf(p)>>}]
    /\ \/ /\ runs_made' = runs_made + 1
          /\ crun' = [crun EXCEPT ![p] = runs_made + 1]
          /\ cattempts' = [cattempts EXCEPT ![p] = 0]
          /\ cpc' = [cpc EXCEPT ![p] = "while"]
          /\ UNCHANGED <<cret, setup>>
       \/ /\ CReturn(p, ReturnedNone)
          /\ setup' = [setup EXCEPT ![p] = "error"]
          /\ UNCHANGED <<runs_made, crun, cattempts>>
    /\ UNCHANGED <<cfn, cthread, listing, seen, threads_made>>
    /\ UNCHANGED <<pollVars, noteVars, mainVars, svcVars>>

\* while attempts < max_attempts:
CWhileTest(p) ==
    /\ cpc[p] = "while"
    /\ cpc' = [cpc EXCEPT ![p] =
                 IF LoopCond(cattempts[p], MaxConcAttempts) THEN "retrieve" ELSE "after_loop"]
    /\ UNCHANGED <<cfn, cthread, crun, cattempts, cret, setup, listing, used,
                   seen, threads_made, runs_made>>
    /\ UNCHANGED <<pollVars, noteVars, mainVars, svcVars>>

\* run = client.beta.threads.runs.retrieve(thread_id=thread.id, run_id=run.id)
\* and the if/elif on run.status
CRunsRetrieve(p) ==
    /\ cpc[p] = "retrieve"
    /\ used' = [used EXCEPT ![p] = @ \cup {<<"thread", ThreadOf(p)>>, <<"run", RunOf(p)>>}]
    /\ \E s \in ConcOutcomes :
          /\ seen' = [seen EXCEPT ![RunOf(p)] = Append(@, s)]
          /\ IF s = "error" THEN CReturn(p, ReturnedNone)
             ELSE IF BreaksLoop(s)
                  THEN cpc' = [cpc EXCEPT ![p] = "after_loop"] /\ UNCHANGED cret
             ELSE IF ReturnsFailure(cfn[p], s) THEN CReturn(p, ReturnedNone)
             ELSE cpc' = [cpc EXCEPT ![p] = "sleep"] /\ UNCHANGED cret
    /\ UNCHANGED <<cfn, cthread, crun, cattempts, setup, listing, threads_made, runs_made>>
    /\ UNCHANGED <<pollVars, noteVars, mainVars, svcVars>>

\* print("."); time.sleep(1); attempts += 1
CSleep(p) ==
    /\ cpc[p] = "sleep"
    /\ cattempts' = [cattempts EXCEPT ![p] = @ + 1]
    /\ cpc' = [cpc EXCEPT ![p] = "while"]
    /\ UNCHANGED <<cfn, cthread, crun, cret, setup, listing, used, seen,
                   threads_made, runs_made>>
    /\ UNCHANGED <<pollVars, noteVars, mainVars, svcVars>>

\* if attempts >= max_attempts: return None, None  (ask_question only)
CAfterLoop(p) ==
    /\ cpc[p] = "after_loop"
    /\ IF TimesOut(cfn[p], cattempts[p], MaxConcAttempts)
       THEN CReturn(p, ReturnedNone)
       ELSE cpc' = [cpc EXCEPT ![p] = "messages_list"] /\ UNCHANGED cret
    /\ UNCHANGED <<cfn, cthread, crun, cattempts, setup, listing, used, seen,
                   threads_made, runs_made>>
    /\ UNCHANGED <<pollVars, noteVars, mainVars, svcVars>>

\* messages = client.beta.threads.messages.list(thread_id=thread.id) and the
\* extraction of the newest message's text.
CMessagesList(p) ==
    /\ cpc[p] = "messages_list"
    /\ used' = [used EXCEPT ![p] = @ \cup {<<"thread", ThreadOf(p)>>}]
    /\ \E c \in Contents \cup {"error"} :
          /\ listing' = [listing EXCEPT ![p] = c]
          /\ CReturn(p, IF c = "text" THEN Output(ThreadOf(p)) ELSE ReturnedNone)
    /\ UNCHANGED <<cfn, cthread, crun, cattempts, setup, seen, threads_made, runs_made>>
    /\ UNCHANGED <<pollVars, noteVars, mainVars, svcVars>>

InitC == InitConc /\ InitSvcIdle /\ InitPollIdle /\ InitNotesIdle /\ InitMainVars

NextConc ==
    \E p \in Procs :
        \/ CThreadsCreate(p)
        \/ CMessagesCreate(p)
        \/ CRunsCreate(p)
        \/ CWhileTest(p)
        \/ CRunsRetrieve(p)
        \/ CSleep(p)
        \/ CAfterLoop(p)
        \/ CMessagesList(p)

SpecConc == InitC /\ [][NextConc]_vars

(***************************************************************************)
(* Claims about the polling loop (checked under Spec)                      *)
(***************************************************************************)

Timeout == "Timeout waiting for response"

\* C1 (as stated): for every max_attempts >= 1 an invocation performs at
\* most max_attempts status checks and at most max_attempts - 1 sleeps.
C1_AtMostMaxMinusOneSleeps ==
    max_attempts >= 1 =>
        /\ checks <= max_attempts
        /\ sleeps <= max_attempts - 1

\* C1 (amended): for every max_attempts >= 1 an invocation performs at most
\* max_attempts status checks and at most max_attempts sleeps, never more
\* sleeps than checks: a sleep follows every check that neither breaks the
\* loop nor returns, the last check included.
C1_BoundedChecksAndSleeps ==
    max_attempts >= 1 =>
        /\ checks <= max_attempts
        /\ sleeps <= max_attempts
        /\ sleeps <= checks

\* C1 witness: all max_attempts checks were made and each was followed by a
\* sleep, and the function has returned.
C1_Witness ==
    /\ max_attempts >= 1
    /\ pc = "done"
    /\ checks = max_attempts
    /\ sleeps = max_attempts

\* C2: if the status is first completed on check k, the invocation makes
\* exactly k checks and k - 1 sleeps, makes no check after that one, and,
\* unless the reading of the messages raises, returns the output.
C2_CompletedOnCheckK ==
    first_completed # 0 =>
        /\ checks = first_completed
        /\ sleeps = first_completed - 1
        /\ status = "completed"
        /\ (pc = "done" /\ ~raised) => ret = "output"

\* C2 witness: statuses [running, running, completed] with max_attempts = 3:
\* the output is returned after 3 checks and 2 sleeps.
C2_Witness ==
    /\ max_attempts = 3
    /\ first_completed = 3
    /\ first_failure = 0
    /\ checks = 3
    /\ sleeps = 2
    /\ pc = "done"
    /\ ret = "output"

\* C3: if a status check returns failed, cancelled or expired, the invocation
\* returns a failure at once: no status check and no sleep follows that check.
C3_FailureReturnsAtOnce ==
    first_failure # 0 =>
        /\ pc = "done"
        /\ ret = "None"
        /\ checks = first_failure
        /\ sleeps = sleeps_at_failure

\* C4: if all max_attempts status checks return a non-terminal status, the
\* invocation returns a timeout failure and no output.
C4_ExhaustionIsTimeout ==
    ( /\ max_attempts >= 1
      /\ pc = "done"
      /\ ~raised
      /\ checks = max_attempts
      /\ first_completed = 0
      /\ first_failure = 0 )
    => (ret = "None" /\ printed = Timeout)

\* C5: the messages of the thread are read only when the most recent status
\* check returned completed.
C5_ExtractionOnlyWhenCompleted ==
    (max_attempts >= 1 /\ extracted) => status = "completed"

HasNotesArray == json_content.kind = "json" /\ json_content.value.has_notes
InputNotes == json_content.value.notes

\* The bounds of a note as the claims state them.
InStatedBounds(d) ==
    /\ d.id \in 1 .. 10
    /\ Len(d.heading) \in 1 .. 100
    /\ Len(d.summary) \in 0 .. 150

Accepted == vpc = "returned" /\ ~notes.is_none
Rejected == vpc = "returned" /\ notes.is_none

\* C7: a response is accepted only if its notes array has exactly 10
\* elements; with any other count, the notes being otherwise valid or not,
\* validate_and_create_notes returns no notes.
C7_ExactlyTenNotes ==
    /\ Accepted => (Len(InputNotes) = 10 /\ Len(notes.list) = 10)
    /\ (vpc = "returned" /\ HasNotesArray /\ Len(InputNotes) # 10) =>
           (notes.is_none /\ notes.list = <<>>)

\* C7 witness: 11 notes, each of them valid, are rejected.
C7_Witness ==
    /\ Rejected
    /\ HasNotesArray
    /\ Len(InputNotes) = 11
    /\ \A i \in 1 .. 11 : InStatedBounds(InputNotes[i])

\* C8: a response of 10 notes is accepted exactly when every note has its id
\* in [1,10], a heading of length in [1,100] and a summary of length in
\* [0,150]: one note with id 0 or 11, an empty heading, a heading of 101
\* characters or a summary of 151 characters makes it rejected, and the
\* boundary values are accepted.
C8_FieldBounds ==
    (vpc = "returned" /\ HasNotesArray /\ Len(InputNotes) = 10) =>
        (~notes.is_none <=> \A i \in 1 .. 10 : InStatedBounds(InputNotes[i]))

\* C8 witness: a response whose third note has id 10, a heading of 100
\* characters and a summary of 150 characters is accepted.
C8_Witness ==
    /\ Accepted
    /\ InputNotes[3].id = 10
    /\ Len(InputNotes[3].heading) = 100
    /\ Len(InputNotes[3].summary) = 150
    /\ notes.list[3].id = 10

\* C9: a response in which a note has a negative page_ref is rejected.
C9_NegativePageRefRejected ==
    ( /\ vpc = "returned"
      /\ HasNotesArray
      /\ \E i \in 1 .. Len(InputNotes) :
            InputNotes[i].page_ref.t = "int" /\ InputNotes[i].page_ref.v < 0 )
    => notes.is_none

\* C10: the ids of the notes validation returns are pairwise distinct.
C10_IdsDistinct ==
    Accepted =>
        \A i, j \in 1 .. Len(notes.list) :
            i # j => notes.list[i].id # notes.list[j].id


\* C12: the value validation returns tells the kind of failure: Malformed
\* for unparseable text, WrongArity for a notes array of n # 10 elements,
\* FieldConstraint for 10 notes of which one breaks a bound.
StatedFailureKind ==
    IF json_content.kind # "json" THEN "Malformed"
    ELSE IF HasNotesArray /\ Len(InputNotes) # 10 THEN "WrongArity"
    ELSE IF HasNotesArray /\ \E i \in 1 .. Len(InputNotes) : ~InStatedBounds(InputNotes[i])
         THEN "FieldConstraint"
    ELSE "other"

\* What the caller can read off the returned value: None, or the notes.
ReturnedKind == IF notes.is_none THEN "None" ELSE "notes"

C12_ReturnIdentifiesFailure ==
    (Rejected /\ StatedFailureKind # "other") => ReturnedKind = StatedFailureKind

C17_OneSleepBetweenChecks ==
    /\ pc = "retrieve" => sleeps = checks
    /\ sleeps <= checks
    /\ checks <= sleeps + 1

\* C17 witness: the third status check is about to be made after two checks
\* and two sleeps.
C17_Witness ==
    /\ pc = "retrieve"
    /\ checks = 2
    /\ sleeps = 2


(***************************************************************************)
(* Claims about validation followed by the rest of main()                  *)
(* (checked under SpecValidate)                                            *)
(***************************************************************************)

\* A raw text that fails validation as the claims state it: no JSON, no
\* object with a notes array, a count other than 10, or a note out of bounds.
StatedInvalid ==
    \/ ~HasNotesArray
    \/ Len(InputNotes) # 10
    \/ \E i \in 1 .. Len(InputNotes) : ~InStatedBounds(InputNotes[i])

Validated == vpc \in {"returned", "main_failed", "save_json", "save_md", "main_done"}

\* C11: for every raw text that fails validation, validate_and_create_notes
\* returns no notes at all, and main() then writes neither file; what is
\* returned is never a proper part of the input notes.
C11_NoPartialResults ==
    /\ (Validated /\ StatedInvalid) =>
           /\ notes.is_none
           /\ notes.list = <<>>
           /\ vpc \in {"returned", "main_failed"}
           /\ ~json_file.written
           /\ ~md_file.written
    /\ (Validated /\ ~notes.is_none) => Len(notes.list) = Len(InputNotes)

\* C11 witness: 10 notes of which exactly one is out of bounds: nothing is
\* returned and main() has stopped with no file written.
C11_Witness ==
    /\ vpc = "main_failed"
    /\ HasNotesArray
    /\ Len(InputNotes) = 10
    /\ ~InStatedBounds(InputNotes[4])
    /\ \A i \in (1 .. 10) \ {4} : InStatedBounds(InputNotes[i])
    /\ notes.is_none
    /\ ~json_file.written

\* C13: validating the document save_notes_to_file has written yields the
\* notes it was written from.
C13_RoundTrip ==
    json_file.written =>
        validate_and_create_notes(json_file.text) =
            [is_none |-> FALSE, list |-> notes.list, printed |-> ""]


(***************************************************************************)
(* Claims about main() of 02_generate_notes.py (checked under SpecMain)    *)
(***************************************************************************)

\* C15: after generate_notes_with_assistant has observed a failed run,
\* main() makes no call of generate_notes_direct.
C15_NoGenerationAfterFailure == status = "failed" => direct_calls = 0

\* C15, as the code has it: after a failed run generate_notes_with_assistant
\* prints "Run failed" and returns None with no further check and no second
\* run; main() then calls generate_notes_direct exactly once, and reports
\* "Failed to generate notes" only if that call returns no content either.
C15_FailureThenOneDirectCall ==
    status = "failed" =>
        /\ pc = "done" /\ ret = "None" /\ printed = "Run failed"
        /\ assistant_calls = 1
        /\ direct_calls = IF vpc \in {"polling", "fallback_test"} THEN 0 ELSE 1
        /\ vpc = "generate_failed" => NotContent(json_content)

\* C15 witness: the run failed, the direct generation was called once and
\* its notes were validated and saved.
C15_Witness ==
    /\ status = "failed"
    /\ assistant_calls = 1
    /\ direct_calls = 1
    /\ vpc = "main_done"
    /\ json_file.written


(***************************************************************************)
(* Claims about the scripts run against the service                        *)
(* (checked under SpecService)                                             *)
(***************************************************************************)

\* C19: a bootstrap run is at a creation step only when the listing it got
\* held no assistant named "Study Q&A Assistant" (and none exists then), it
\* creates at most one, and from a service that held none at most one exists
\* after any sequence of script runs.
C19_BootstrapCreatesOrReuses ==
    /\ spc \in {"cwf_upload", "cwf_create", "ca_create"} => (listed = 0 /\ named = 0)
    /\ created <= 1
    /\ created = 1 => listed = 0
    /\ init_named = 0 => named <= 1

\* C19 witness: a second bootstrap run found the assistant the first one
\* created and is about to reuse it.
C19_Witness ==
    /\ init_named = 0
    /\ named = 1
    /\ spc = "boot_upload"
    /\ listed = 1
    /\ created = 0

\* C20: while cleanup_assistant has returned and no bootstrap run has
\* started since, no assistant of that name exists, get_assistant raises
\* (ValueError, or the error of the listing call itself), and main() of
\* 01_qna_assistant.py gets to no ask_question call: no thread and no run
\* is created.
C20_NothingLeftAfterCleanup ==
    clean =>
        /\ named = 0
        /\ spc \notin {"qna_files", "qna_ask", "qna_wait"}
        /\ pc = "idle"
        /\ spc = "qna_except" => qna_exc \in {"ValueError", "APIError"}

\* C20 witness: cleanup deleted two assistants of that name and returned,
\* and the Q&A main() that followed caught ValueError.
C20_Witness ==
    /\ clean
    /\ init_named = 2
    /\ named = 0
    /\ spc = "qna_except"
    /\ qna_exc = "ValueError"
    /\ pc = "idle"


(***************************************************************************)
(* Claims about concurrent invocations (checked under SpecConc)            *)
(***************************************************************************)

\* The loop of one invocation run alone against the outcomes seq of the
\* status checks of its run, from attempts = a on.
RECURSIVE LoopAlone(_, _, _, _)
LoopAlone(f, m, seq, a) ==
    IF ~LoopCond(a, m) THEN [exit |-> "after_loop", attempts |-> a]
    ELSE IF Len(seq) <= a THEN [exit |-> "unfinished", attempts |-> a]
    ELSE IF seq[a + 1] = "error" THEN [exit |-> "return_none", attempts |-> a]
    ELSE IF BreaksLoop(seq[a + 1]) THEN [exit |-> "after_loop", attempts |-> a]
    ELSE IF ReturnsFailure(f, seq[a + 1]) THEN [exit |-> "return_none", attempts |-> a]
    ELSE LoopAlone(f, m, seq, a + 1)

\* What one invocation returns running alone: f with max_attempts m, whose
\* calls before the loop went as su, whose run was reported as seq, and whose
\* thread t was listed as li.
Alone(f, m, su, seq, li, t) ==
    IF su = "error" THEN ReturnedNone
    ELSE LET l == LoopAlone(f, m, seq, 0)
         IN  IF l.exit = "return_none" THEN ReturnedNone
             ELSE IF l.exit = "unfinished" THEN Pending
             ELSE IF TimesOut(f, l.attempts, m) THEN ReturnedNone
             ELSE IF li = "text" THEN Output(t)
             ELSE IF li = "none" THEN Pending
             ELSE ReturnedNone

SeenOf(p) == IF crun[p] = 0 THEN <<>> ELSE seen[crun[p]]

\* C16: in every interleaving of two invocations, each passes to the service
\* only the thread and the run it created itself, the two never share a
\* thread or a run, and each returns what it would return running alone
\* against the outcomes of the status checks of its own run.
C16_ConcurrentInvocationsIndependent ==
    /\ \A p \in Procs : used[p] \subseteq {<<"thread", cthread[p]>>, <<"run", crun[p]>>}
    /\ \A p \in Procs : \A q \in Procs \ {p} :
          /\ cthread[p] # 0 => cthread[p] # cthread[q]
          /\ crun[p] # 0 => crun[p] # crun[q]
    /\ \A p \in Procs :
          cpc[p] = "done" =>
              cret[p] = Alone(cfn[p], MaxConcAttempts, setup[p], SeenOf(p),
                              listing[p], cthread[p])

\* C16 witness: the two invocations have interleaved their status checks,
\* one got completed on its second check and returned its own thread's text,
\* the other one saw its run fail.
C16_Witness ==
    /\ cpc[1] = "done" /\ cpc[2] = "done"
    /\ crun[1] = 2 /\ crun[2] = 1
    /\ seen[2] = <<"running", "completed">>
    /\ seen[1] = <<"running", "failed">>
    /\ cret[1] = Output(cthread[1])
    /\ cret[2] = ReturnedNone


(***************************************************************************)
(* Claims about create_assistant_with_file (checked under SpecService)     *)
(***************************************************************************)

\* C21: create_assistant_with_file has uploaded the file exactly once before
\* any creation attempt, its attempts are tool_resources, file_ids and no
\* attachment in that order, it is at an attempt only while none has
\* succeeded, it creates at most one assistant, and it has returned exactly
\* when an attempt succeeded: then it returned the assistant of the last
\* shape tried together with the id of the file it uploaded.
C21_UploadOnceThenShapesInOrder ==
    /\ spc = "cwf_create" => (uploads = 1 /\ created = 0)
    /\ Len(tried) > 0 => uploads = 1
    /\ tried = SubSeq(<<"tool_resources", "file_ids", "no_attachment">>, 1, Len(tried))
    /\ created <= 1
    /\ (Len(tried) > 0 /\ created = 1) <=> returned.kind = "pair"
    /\ returned.kind = "pair" =>
          /\ spc = "shell"
          /\ returned.assistant = tried[Len(tried)]
          /\ returned.file_id = files
          /\ named >= 1

\* C21 witness: the tool_resources shape failed, the legacy file_ids shape
\* succeeded and the function returned after one upload and one creation.
C21_Witness ==
    /\ spc = "shell"
    /\ tried = <<"tool_resources", "file_ids">>
    /\ uploads = 1
    /\ created = 1
    /\ returned = ReturnedPair("file_ids", files)


(***************************************************************************)
(* Claims about what ask_question returns (checked under Spec)             *)
(***************************************************************************)

\* C22: ask_question always returns: (None, None) when a remote call has
\* raised, when its run was reported failed, cancelled or expired, and on
\* timeout; an answer only after a status check of its run has returned
\* completed.
C22_AskQuestionReturnsNoneOnFailure ==
    fn = "ask_question" =>
        /\ pc = "done" <=> ret # "pending"
        /\ pc = "done" =>
              /\ ret \in {"None", "output"}
              /\ raised => ret = "None"
              /\ status \in TerminalFailure => ret = "None"
              /\ printed = Timeout => ret = "None"
              /\ ret = "output" =>
                    (first_completed > 0 /\ status = "completed" /\ ~raised)

\* C22 witness: the second status check of ask_question raised and the
\* function returned (None, None).
C22_Witness ==
    /\ fn = "ask_question"
    /\ pc = "done"
    /\ checks = 2
    /\ status = "running"
    /\ raised
    /\ ret = "None"

\* C23: when the run has completed and the newest message has empty
\* content, ask_question returns the answer "No response received".
C23_EmptyContentAnswer ==
    (fn = "ask_question" /\ pc = "done" /\ status = "completed" /\ content = "empty")
        => ret = "No response received"


(***************************************************************************)
(* Claims about the page references written (checked under SpecValidate)   *)
(***************************************************************************)

\* C24: the markdown file has a "Page Reference" line for exactly the notes
\* whose page_ref is not None, page_ref 0 included, and the summary counts
\* exactly those notes.
C24_PageReferenceForEveryPresentRef ==
    md_file.written =>
        /\ \A i \in 1 .. Len(notes.list) :
              md_file.sections[i].page_line <=> notes.list[i].page_ref # None
        /\ NotesWithPageRefs(notes.list) =
              Cardinality({i \in 1 .. Len(notes.list) : notes.list[i].page_ref # None})

=============================================================================
